---- MODULE Spec2Model ----
(***************************************************************************)
(* CSSOM live-view layer of node/src/stylesheet.rs: one CSSStyleSheet, its *)
(* rule tree, the CSSRuleList identity caches and the CSSRule handles.     *)
(*                                                                         *)
(* Indices are the code's 0-based indices; the TLA+ sequences that hold    *)
(* the rules are 1-based, so the rule at index i is element i+1.           *)
(*                                                                         *)
(* A panic (unwrap on Err, slice or index out of range, unreachable!())    *)
(* ends the run: no action is enabled once res.status = "panic".  The      *)
(* state at the panic is the state the code had reached by then.           *)
(*                                                                         *)
(* Handles are kept alive by the caller (every JS object returned by       *)
(* item() is still referenced), so the cache's weak references resolve.    *)
(***************************************************************************)
EXTENDS Integers, Sequences, FiniteSets, TLC

VARIABLES sheet, sheetRules, lists, handles, nextUid, res

vars == <<sheet, sheetRules, lists, handles, nextUid, res>>

\* ---------------------------------------------------------------- bounds
\* The number of rules the parser may produce in a run.  No sequence grows
\* longer and no list holds more handles than the rules ever parsed.
MaxUid == 2

\* The index range the caller draws from.
Indices == 0..MaxUid
\* insertRule's index argument when the caller omits it (Option::None).
Omitted == 0 - 1

\* ------------------------------------------------------------ rule nodes
\* A CssRule or Keyframe value.  uid is the identity of the allocation the
\* parser made (a clone keeps it); it is not visible to the program.
Node(kind, text, kids) == [kind |-> kind, text |-> text, kids |-> kids, uid |-> 0]

NoNode == Node("None", "", <<>>)
\* The outcome of reading a rule through a reference that cannot be read.
PanicNode == Node("Panic", "", <<>>)
SyntaxError == Node("SyntaxError", "", <<>>)

\* CssRule::parse_string / Keyframe parsing of the rule engine, on the
\* texts the caller draws from.  The text of a Media rule is its MediaList,
\* the sequence of its media queries; ".a {  }" is what addRule formats
\* from the selector ".a" and an empty style.
ParseRule(text) ==
  CASE text = "a" -> Node("Style", ".a", <<>>)
    [] text = "b" -> Node("Style", ".b", <<>>)
    [] text = ".a {  }" -> Node("Style", ".a", <<>>)
    [] text = "@media" -> Node("Media", <<"screen">>, <<Node("Style", ".c", <<>>)>>)
    [] text = "@supports" -> Node("Supports", "(a:b)", <<>>)
    [] text = "@keyframes" -> Node("Keyframes", "k", <<Node("Keyframe", "50%", <<>>)>>)
    [] text = "@font-face" -> Node("Other", "font-face", <<>>)
    [] OTHER -> SyntaxError

WithUid(node, u) ==
  [node EXCEPT !.uid = u,
               !.kids = [k \in DOMAIN node.kids |-> [node.kids[k] EXCEPT !.uid = u * 10 + k]]]

\* StyleSheet::parse on a sequence of rule texts: all rules or an error.
ParseSheet(code) ==
  IF \E k \in DOMAIN code : ParseRule(code[k]) = SyntaxError
  THEN <<SyntaxError>>
  ELSE [k \in DOMAIN code |-> WithUid(ParseRule(code[k]), nextUid + k)]

\* to_css_string: the printed rule, which does not show the allocation.
KidText(node) == <<node.kind, node.text>>
CssText(node) == <<node.kind, node.text, [k \in DOMAIN node.kids |-> KidText(node.kids[k])]>>

\* Vec::insert and Vec::remove at a 0-based index.
InsertAt(s, i, x) == SubSeq(s, 1, i) \o <<x>> \o SubSeq(s, i + 1, Len(s))
RemoveAt(s, i) == SubSeq(s, 1, i) \o SubSeq(s, i + 2, Len(s))

\* ------------------------------------------------------- list references
\* RuleListReference: a raw pointer to a Vec.  "sheet" is the stylesheet's
\* own field; "slot" is the children Vec inside the rule that occupied
\* top-level slot `slot` when the reference was taken (uid names that rule);
\* "snap" is the children Vec inside handle h's Disconnected snapshot, taken
\* when that snapshot was the clone of rule uid.
\* kf tells RuleListReference::Keyframes from RuleListReference::Rule.
Ref(base, kf, slot, uid, h) == [base |-> base, kf |-> kf, slot |-> slot, uid |-> uid, h |-> h]
SheetRef == Ref("sheet", FALSE, 0, 0, 0)
NoRef == Ref("none", FALSE, 0, 0, 0)

Target(t, k) == [t |-> t, k |-> k]
Wild == Target("wild", 0)

KindFits(r, node) == node.kind = (IF r.kf THEN "Keyframes" ELSE "Media")

\* What a dereference of r reaches.  A "slot" reference is only well
\* defined while the rule it was taken from still occupies that slot; once
\* the parent Vec has shifted it is dangling, and the read reaches the
\* children of whichever rule of the same kind now lies at that address
\* (or, past the Vec's end, a stale copy of a rule that moved), or faults.
\* A "snap" reference dangles likewise once the snapshot has been replaced.
Targets(r) ==
  CASE r.base = "sheet" -> {Target("sheet", 0)}
    [] r.base = "slot" ->
         IF r.slot < Len(sheet) /\ sheet[r.slot + 1].uid = r.uid
         THEN {Target("slot", r.slot)}
         ELSE {Target("slot", j) : j \in {j \in 0..(Len(sheet) - 1) :
                    /\ KindFits(r, sheet[j + 1])
                    /\ (j = r.slot \/ r.slot >= Len(sheet))}} \cup {Wild}
    [] r.base = "snap" ->
         IF handles[r.h].snap.uid = r.uid
         THEN {Target("snap", r.h)}
         ELSE (IF KindFits(r, handles[r.h].snap) THEN {Target("snap", r.h)} ELSE {}) \cup {Wild}
    [] OTHER -> {Wild}

VecOf(tg) ==
  CASE tg.t = "sheet" -> sheet
    [] tg.t = "slot" -> sheet[tg.k + 1].kids
    [] tg.t = "snap" -> handles[tg.k].snap.kids
    [] OTHER -> <<>>

\* RuleListReference::rule: &rule_list[index], which panics out of range.
NodeAt(tg, index) ==
  IF tg = Wild \/ index >= Len(VecOf(tg)) THEN PanicNode ELSE VecOf(tg)[index + 1]

\* ---------------------------------------------------------------- handles
\* CSSRule with the JS class it was wrapped in (cls) and, for grouping and
\* keyframes rules, the cached nested CSSRuleList (rules, 0 for None); for
\* a CSSMediaRule, media is the reference its cached MediaList object holds
\* to the rule's query (NoRef for None).
Handle(cls, ref, index, parent) ==
  [cls |-> cls, conn |-> TRUE, ref |-> ref, index |-> index, snap |-> NoNode,
   parent_rule |-> parent, rules |-> 0, media |-> NoRef]

\* RuleInner::Disconnected(snapshot)
Disconnected(h, snapshot) ==
  [h EXCEPT !.conn = FALSE, !.ref = NoRef, !.index = 0, !.snap = snapshot]

\* RuleInner::rule, over the outcomes of the dereference.
RuleOutcomes(h) ==
  IF ~h.conn THEN {h.snap} ELSE {NodeAt(tg, h.index) : tg \in Targets(h.ref)}

\* CSSRule::parent_style_sheet
parent_style_sheet(h) == IF h.conn THEN "sheet" ELSE "null"

\* The names of the objects.  A CSSRule handle is named after the rule it
\* was created for and the number of handles created for that rule before
\* it; the stylesheet's CSSRuleList is TopList and the CSSRuleList of a
\* grouping or keyframes handle bears the handle's name.  0 is None.
TopList == 1
NewHandle(node) == node.uid * 10 + Cardinality({h \in DOMAIN handles : h \div 10 = node.uid})

\* CSSRuleList
RuleList(ref, parent) == [rule_list |-> ref, rules |-> <<>>, parent_rule |-> parent]

\* The outcome of the last call that returned a status: the operation, its
\* status ("ok", "IndexOutOfBounds", "error" or "panic"), the list or the
\* grouping handle it was called on, its text and index arguments and the
\* value it returned.  The cssRules getters return the list the state names.
Result(op, status, list, h, text, arg, ret) ==
  [op |-> op, status |-> status, list |-> list, h |-> h, text |-> text, arg |-> arg, ret |-> ret]

Running == res.status # "panic"

Init ==
  /\ sheet = <<>>
  /\ sheetRules = 0
  /\ lists = <<>>
  /\ handles = <<>>
  /\ nextUid = 0
  /\ res = Result("new", "ok", 0, 0, <<>>, 0, 0)

\* ------------------------------------------------- the two core algorithms
Outcome(status, rules, ls, hs, ret) ==
  [status |-> status, rules |-> rules, lists |-> ls, handles |-> hs, ret |-> ret]

\* The handles a cache holds from 0-based slot `from` on.
CachedFrom(L, from) == {lists[L].rules[j] : j \in {j \in DOMAIN lists[L].rules : j > from}} \ {0}

\* Mutant of insert_rule: the cached handles from index on are not shifted.
insert_rule_noshift(rules, js, text, index) ==
  LET idx == IF index = Omitted THEN 0 ELSE index
      new_rule == ParseRule(text)
  IN  IF idx > Len(rules)
      THEN Outcome("IndexOutOfBounds", rules, lists, handles, 0)
      ELSE IF new_rule = SyntaxError
      THEN Outcome("panic", rules, lists, handles, 0)
      ELSE IF js # 0 /\ idx > Len(lists[js].rules)
      THEN Outcome("panic", rules, lists, handles, 0)
      ELSE Outcome("ok",
             InsertAt(rules, idx, WithUid(new_rule, nextUid + 1)),
             IF js = 0 THEN lists ELSE [lists EXCEPT ![js].rules = InsertAt(@, idx, 0)],
             handles,
             idx)

\* Mutant of insert_rule: the text is parsed before the index is checked.
insert_rule_parsefirst(rules, js, text, index) ==
  LET idx == IF index = Omitted THEN 0 ELSE index
      new_rule == ParseRule(text)
  IN  IF new_rule = SyntaxError
      THEN Outcome("panic", rules, lists, handles, 0)
      ELSE IF idx > Len(rules)
      THEN Outcome("IndexOutOfBounds", rules, lists, handles, 0)
      ELSE IF js # 0 /\ idx > Len(lists[js].rules)
      THEN Outcome("panic", rules, lists, handles, 0)
      ELSE Outcome("ok",
             InsertAt(rules, idx, WithUid(new_rule, nextUid + 1)),
             IF js = 0 THEN lists ELSE [lists EXCEPT ![js].rules = InsertAt(@, idx, 0)],
             IF js = 0 THEN handles
             ELSE [h \in DOMAIN handles |->
                    IF handles[h].conn /\ h \in CachedFrom(js, idx)
                    THEN [handles[h] EXCEPT !.index = @ + 1]
                    ELSE handles[h]],
             idx)

\* fn insert_rule(rules, js_rules, env, rule, index)
insert_rule(rules, js, text, index) ==
  LET idx == IF index = Omitted THEN 0 ELSE index
      new_rule == ParseRule(text)
  IN  IF idx > Len(rules)
      THEN Outcome("IndexOutOfBounds", rules, lists, handles, 0)
      ELSE IF new_rule = SyntaxError
      THEN Outcome("panic", rules, lists, handles, 0)         \* .unwrap()
      ELSE IF js # 0 /\ idx > Len(lists[js].rules)
      THEN Outcome("panic", rules, lists, handles, 0)         \* &rules.rules[index..]
      ELSE Outcome("ok",
             InsertAt(rules, idx, WithUid(new_rule, nextUid + 1)),
             IF js = 0 THEN lists ELSE [lists EXCEPT ![js].rules = InsertAt(@, idx, 0)],
             IF js = 0 THEN handles
             ELSE [h \in DOMAIN handles |->
                    IF handles[h].conn /\ h \in CachedFrom(js, idx)
                    THEN [handles[h] EXCEPT !.index = @ + 1]
                    ELSE handles[h]],
             idx)

\* Mutant of CSSRuleList_delete_rule: the handles cached beyond index keep
\* their index.
CSSRuleList_delete_rule_noshift(L, index, snapshot) ==
  LET cache == lists[L].rules
      at == IF index < Len(cache) THEN cache[index + 1] ELSE 0
  IN  IF index >= Len(cache)
      THEN Outcome("ok", <<>>, lists, handles, 0)
      ELSE IF at # 0 /\ snapshot = PanicNode
      THEN Outcome("panic", <<>>, lists, handles, 0)
      ELSE Outcome("ok", <<>>,
             [lists EXCEPT ![L].rules = RemoveAt(@, index)],
             [h \in DOMAIN handles |->
                IF h = at
                THEN [Disconnected(handles[h], snapshot) EXCEPT !.parent_rule = 0]
                ELSE handles[h]],
             0)

\* CSSRuleList::delete_rule(index); snapshot is what disconnect() cloned
\* for the handle cached at index.
CSSRuleList_delete_rule(L, index, snapshot) ==
  LET cache == lists[L].rules
      at == IF index < Len(cache) THEN cache[index + 1] ELSE 0
  IN  IF index >= Len(cache)
      THEN Outcome("ok", <<>>, lists, handles, 0)
      ELSE IF at # 0 /\ snapshot = PanicNode
      THEN Outcome("panic", <<>>, lists, handles, 0)
      ELSE Outcome("ok", <<>>,
             [lists EXCEPT ![L].rules = RemoveAt(@, index)],
             [h \in DOMAIN handles |->
                IF h = at
                THEN [Disconnected(handles[h], snapshot) EXCEPT !.parent_rule = 0]
                ELSE IF handles[h].conn /\ h \in CachedFrom(L, index + 1)
                THEN [handles[h] EXCEPT !.index = @ - 1]
                ELSE handles[h]],
             0)

\* fn delete_rule(rules, js_rules, env, index)
delete_rule(rules, js, index, snapshot) ==
  IF index > Len(rules)
  THEN Outcome("IndexOutOfBounds", rules, lists, handles, 0)
  ELSE LET c == IF js = 0 THEN Outcome("ok", <<>>, lists, handles, 0)
                ELSE CSSRuleList_delete_rule(js, index, snapshot)
       IN  IF c.status = "panic"
           THEN Outcome("panic", rules, c.lists, c.handles, 0)
           ELSE IF index >= Len(rules)
           THEN Outcome("panic", rules, c.lists, c.handles, 0)   \* rules.remove(index)
           ELSE Outcome("ok", RemoveAt(rules, index), c.lists, c.handles, 0)

\* The outcomes of disconnect() on the handle js caches at index.
DisconnectOutcomes(js, index) ==
  IF js = 0 \/ index >= Len(lists[js].rules) \/ lists[js].rules[index + 1] = 0
  THEN {NoNode}
  ELSE RuleOutcomes(handles[lists[js].rules[index + 1]])

\* ------------------------------------------------------------ CSSStyleSheet
\* The calls the caller draws from: rule texts with an index, stylesheet
\* texts as the sequence of their rules.  Indices are drawn up to one past
\* the end of the sequence the call addresses (index <= length + 1 in the
\* actions); larger ones take the same branches.  "bad" is text the parser
\* rejects; it comes without an index or with the index just past the end.
BadCall(text, index, len) == text = "bad" => index \in {Omitted, len + 1}

InsertCalls == {"a", "@media", "bad"} \X (Indices \cup {Omitted})
Codes == {<<"@media", "@keyframes">>, <<"b">>, <<>>, <<"bad">>}

\* CSSStyleSheet::css_rules
CSSStyleSheet_css_rules ==
  /\ Running
  /\ IF sheetRules # 0
     THEN UNCHANGED <<sheetRules, lists, res>>
     ELSE /\ lists' = lists @@ (TopList :> RuleList(SheetRef, 0))
          /\ sheetRules' = TopList
          /\ res' = Result("cssRules", "ok", TopList, 0, <<>>, 0, TopList)
  /\ UNCHANGED <<sheet, handles, nextUid>>

\* CSSStyleSheet::insert_rule
CSSStyleSheet_insert_rule(text, index) ==
  /\ Running
  /\ nextUid < MaxUid
  /\ index <= Len(sheet) + 1
  /\ BadCall(text, index, Len(sheet))
  /\ LET o == insert_rule(sheet, sheetRules, text, index)
     IN  /\ sheet' = o.rules
         /\ lists' = o.lists
         /\ handles' = o.handles
         /\ nextUid' = IF o.status = "ok" THEN nextUid + 1 ELSE nextUid
         /\ res' = Result("insertRule", o.status, 0, 0, <<text>>, index, o.ret)
  /\ UNCHANGED sheetRules

\* CSSStyleSheet::delete_rule
CSSStyleSheet_delete_rule(index) ==
  /\ Running
  /\ index <= Len(sheet) + 1
  /\ \E snapshot \in DisconnectOutcomes(sheetRules, index) :
       LET o == delete_rule(sheet, sheetRules, index, snapshot)
       IN  /\ sheet' = o.rules
           /\ lists' = o.lists
           /\ handles' = o.handles
           /\ res' = Result("deleteRule", o.status, 0, 0, <<>>, index, 0)
  /\ UNCHANGED <<sheetRules, nextUid>>

\* CSSStyleSheet::replace_sync
CSSStyleSheet_replace_sync(code) ==
  /\ Running
  /\ nextUid + Len(code) <= MaxUid
  /\ LET cache == IF sheetRules = 0 THEN <<>> ELSE lists[sheetRules].rules
         \* the first cached handle whose cache index is no index of the tree
         stop == {j \in DOMAIN cache : cache[j] # 0 /\ j > Len(sheet)}
         upto == IF stop = {} THEN Len(cache)
                 ELSE (CHOOSE j \in stop : \A k \in stop : j <= k) - 1
         parsed == ParseSheet(code)
     IN  /\ handles' = [h \in DOMAIN handles |->
                          IF \E j \in 1..upto : cache[j] = h
                          THEN LET j == CHOOSE j \in 1..upto : cache[j] = h
                               IN  Disconnected(handles[h], sheet[j])
                          ELSE handles[h]]
         /\ IF stop # {} \/ parsed = <<SyntaxError>>
            THEN /\ res' = Result("replaceSync", "panic", 0, 0, code, 0, 0)
                 /\ UNCHANGED <<sheet, nextUid>>
            ELSE /\ sheet' = parsed
                 /\ nextUid' = nextUid + Len(code)
                 /\ res' = Result("replaceSync", "ok", 0, 0, code, 0, 0)
  /\ UNCHANGED <<sheetRules, lists>>

\* -------------------------------------------------------------- CSSRuleList
\* css_rule_to_js_unknown / keyframe_to_js_unknown: the class of the wrapper
ClassOf(r, node) ==
  IF r.kf THEN "Keyframe"
  ELSE IF node.kind \in {"Style", "Media", "Supports", "Keyframes"} THEN node.kind
  ELSE "unreachable"

\* Mutant of CacheHit: item() never consults the cache.
CacheHit_never(cache, index) == FALSE

\* if let Some(Some(rule)) = self.rules.get(index)
CacheHit(cache, index) == index < Len(cache) /\ cache[index + 1] # 0

\* CSSRuleList::item on list L of ls with handles hs, when the dereference
\* of the list's reference reaches tg: the status, the lists and handles
\* afterwards and the handle returned (0 for none).
ItemVia(ls, hs, L, index, tg) ==
  LET cache == ls[L].rules
      r == ls[L].rule_list
      grown == IF Len(cache) <= index
               THEN cache \o [k \in 1..(index + 1 - Len(cache)) |-> 0]
               ELSE cache
      node == IF tg # Wild /\ index < Len(VecOf(tg)) THEN VecOf(tg)[index + 1] ELSE NoNode
  IN  IF CacheHit(cache, index)
      THEN Outcome("ok", <<>>, ls, hs, cache[index + 1])
      ELSE IF tg = Wild \/ (node # NoNode /\ ClassOf(r, node) = "unreachable")
      THEN Outcome("panic", <<>>, ls, hs, 0)
      ELSE IF node = NoNode
      \* rule_list.get gave null: the cache is resized, then creating a
      \* reference to null fails and the call errs
      THEN Outcome("error", <<>>, [ls EXCEPT ![L].rules = grown], hs, 0)
      ELSE Outcome("ok", <<>>,
             [ls EXCEPT ![L].rules = [grown EXCEPT ![index + 1] = NewHandle(node)]],
             hs @@ (NewHandle(node) :> Handle(ClassOf(r, node), r, index, ls[L].parent_rule)),
             NewHandle(node))

\* CSSRuleList::item
CSSRuleList_item(L, index) ==
  /\ Running
  /\ L \in DOMAIN lists
  /\ \E tg \in Targets(lists[L].rule_list) :
       /\ CacheHit(lists[L].rules, index) \/ index <= Len(VecOf(tg))
       /\ LET o == ItemVia(lists, handles, L, index, tg)
          IN  /\ lists' = o.lists
              /\ handles' = o.handles
              /\ res' = Result("item", o.status, L, 0, <<>>, index, o.ret)
  /\ UNCHANGED <<sheet, sheetRules, nextUid>>

\* ----------------------------------------- CSSGroupingRule, CSSKeyframesRule
NestedCalls == {"a", "bad"} \X (Indices \cup {Omitted})

\* The handles wrapped as CSSMediaRule (a CSSGroupingRule) and as
\* CSSKeyframesRule.  Their rules lie in the top-level list.
GroupingHandles == {h \in DOMAIN handles : handles[h].cls = "Media"}
KeyframesHandles == {h \in DOMAIN handles : handles[h].cls = "Keyframes"}

\* RuleInner::rule_mut for a handle of the top-level list: the rule it
\* addresses now (PanicNode when the index is no index of the tree).
OwnRule(h) ==
  IF handles[h].conn THEN NodeAt(Target("sheet", 0), handles[h].index) ELSE handles[h].snap

\* The reference share_with() takes to the children Vec of h's rule.
ChildrenRef(h, kf) ==
  IF handles[h].conn
  THEN Ref("slot", kf, handles[h].index, OwnRule(h).uid, 0)
  ELSE Ref("snap", kf, 0, handles[h].snap.uid, h)

\* Mutant of nested_css_rules: every read creates the list anew.
nested_css_rules_fresh(h, kf, kind, op) ==
  /\ Running
  /\ IF OwnRule(h).kind # kind
     THEN /\ res' = Result(op, "panic", 0, h, <<>>, 0, 0)
          /\ UNCHANGED <<lists, handles>>
     ELSE /\ lists' = [L \in DOMAIN lists \cup {h} |-> IF L = h THEN RuleList(ChildrenRef(h, kf), h) ELSE lists[L]]
          /\ handles' = [handles EXCEPT ![h].rules = h]
          /\ res' = Result(op, "ok", h, h, <<>>, 0, h)
  /\ UNCHANGED <<sheet, sheetRules, nextUid>>

\* CSSGroupingRule::css_rules and CSSKeyframesRule::css_rules
nested_css_rules(h, kf, kind, op) ==
  /\ Running
  /\ IF handles[h].rules # 0
     THEN UNCHANGED <<lists, handles, res>>
     ELSE IF OwnRule(h).kind # kind
     THEN /\ res' = Result(op, "panic", 0, h, <<>>, 0, 0)          \* unreachable!()
          /\ UNCHANGED <<lists, handles>>
     ELSE /\ lists' = lists @@ (h :> RuleList(ChildrenRef(h, kf), h))
          /\ handles' = [handles EXCEPT ![h].rules = h]
          /\ res' = Result(op, "ok", h, h, <<>>, 0, h)
  /\ UNCHANGED <<sheet, sheetRules, nextUid>>

CSSGroupingRule_css_rules(h) == nested_css_rules(h, FALSE, "Media", "groupCssRules")

CSSKeyframesRule_css_rules(h) == nested_css_rules(h, TRUE, "Keyframes", "keyframesCssRules")

\* Writing the children Vec of h's rule back where h's rule lives.
StoreChildren(h, kids, o) ==
  IF handles[h].conn
  THEN /\ sheet' = [sheet EXCEPT ![handles[h].index + 1].kids = kids]
       /\ handles' = o.handles
  ELSE /\ handles' = [o.handles EXCEPT ![h].snap.kids = kids]
       /\ UNCHANGED sheet

\* fn grouping_rule_insert
grouping_rule_insert(h, text, index) ==
  /\ Running
  /\ nextUid < MaxUid
  /\ IF OwnRule(h).kind # "Media"
     THEN /\ res' = Result("groupInsertRule", "panic", 0, h, <<text>>, index, 0)
          /\ UNCHANGED <<sheet, lists, handles, nextUid>>
     ELSE /\ index <= Len(OwnRule(h).kids) + 1
          /\ BadCall(text, index, Len(OwnRule(h).kids))
          /\ LET o == insert_rule(OwnRule(h).kids, handles[h].rules, text, index)
             IN  /\ StoreChildren(h, o.rules, o)
                 /\ lists' = o.lists
                 /\ nextUid' = IF o.status = "ok" THEN nextUid + 1 ELSE nextUid
                 /\ res' = Result("groupInsertRule", o.status, 0, h, <<text>>, index, o.ret)
  /\ UNCHANGED sheetRules

\* fn grouping_rule_delete
grouping_rule_delete(h, index) ==
  /\ Running
  /\ IF OwnRule(h).kind # "Media"
     THEN /\ res' = Result("groupDeleteRule", "panic", 0, h, <<>>, index, 0)
          /\ UNCHANGED <<sheet, lists, handles>>
     ELSE \E snapshot \in DisconnectOutcomes(handles[h].rules, index) :
          /\ index <= Len(OwnRule(h).kids) + 1
          /\ LET o == delete_rule(OwnRule(h).kids, handles[h].rules, index, snapshot)
             IN  /\ StoreChildren(h, o.rules, o)
                 /\ lists' = o.lists
                 /\ res' = Result("groupDeleteRule", o.status, 0, h, <<>>, index, 0)
  /\ UNCHANGED <<sheetRules, nextUid>>

\* -------------------------------------------------------------- CSSStyleRule
\* StyleRule::set_selector_text's parse of a selector list, on the texts
\* the caller draws from: the parsed selectors as they print, or an error.
ParseSelectors(text) ==
  CASE text = ".b" -> ".b"
    [] text = " .b" -> ".b"
    [] OTHER -> "SyntaxError"

SelectorTexts == {" .b", "bad"}

\* The handles wrapped as CSSStyleRule.
StyleHandles == {h \in DOMAIN handles : handles[h].cls = "Style"}

\* CSSStyleRule::set_selector_text
CSSStyleRule_set_selector_text(h, text) ==
  /\ Running
  /\ \E tg \in (IF handles[h].conn THEN Targets(handles[h].ref) ELSE {Target("own", h)}) :
       LET index == handles[h].index
           node == IF handles[h].conn THEN NodeAt(tg, index) ELSE handles[h].snap
           sel == ParseSelectors(text)
       IN  IF node.kind # "Style" \/ sel = "SyntaxError"
           \* rule_mut's index or unreachable!(), or .unwrap()
           THEN /\ res' = Result("setSelectorText", "panic", 0, h, <<text>>, 0, 0)
                /\ UNCHANGED <<sheet, handles>>
           ELSE /\ res' = Result("setSelectorText", "ok", 0, h, <<text>>, 0, 0)
                /\ sheet' = CASE tg.t = "sheet" -> [sheet EXCEPT ![index + 1].text = sel]
                              [] tg.t = "slot" -> [sheet EXCEPT ![tg.k + 1].kids[index + 1].text = sel]
                              [] OTHER -> sheet
                /\ handles' = CASE tg.t = "snap" -> [handles EXCEPT ![tg.k].snap.kids[index + 1].text = sel]
                                [] tg.t = "own" -> [handles EXCEPT ![h].snap.text = sel]
                                [] OTHER -> handles
  /\ UNCHANGED <<sheetRules, lists, nextUid>>

\* ---------------------------------------------------------- CSSKeyframesRule
\* parse_keyframe_selectors, on the texts the caller draws from: the parsed
\* selector list as it prints, or an error.
parse_keyframe_selectors(text) ==
  CASE text = "50%" -> "50%"
    [] text = "50.0%" -> "50%"
    [] text = "10%" -> "10%"
    [] OTHER -> "SyntaxError"

\* Keyframe::parse_string
ParseKeyframe(text) ==
  CASE text = "50%{}" -> Node("Keyframe", "50%", <<>>)
    [] OTHER -> SyntaxError

KeyframeSelectors == {"50.0%", "10%", "bad"}
KeyframeTexts == {"50%{}", "bad"}

\* CSSKeyframesRule::find_index: the status and Some(index) or None.
None == 0 - 1
find_index(h, select) ==
  LET parsed == parse_keyframe_selectors(select)
      rule == OwnRule(h)
      matching == {k \in DOMAIN rule.kids : rule.kids[k].text = parsed}
  IN  IF parsed = "SyntaxError" THEN [status |-> "ok", index |-> None]
      ELSE IF rule = PanicNode THEN [status |-> "panic", index |-> None]
      ELSE IF rule.kind # "Keyframes" THEN [status |-> "error", index |-> None]
      ELSE IF matching = {} THEN [status |-> "ok", index |-> None]
      ELSE [status |-> "ok", index |-> (CHOOSE k \in matching : \A j \in matching : j <= k) - 1]

\* CSSKeyframesRule::find_rule
CSSKeyframesRule_find_rule(h, select) ==
  /\ Running
  /\ LET f == find_index(h, select)
         ls == IF handles[h].rules # 0 THEN lists
               ELSE lists @@ (h :> RuleList(ChildrenRef(h, TRUE), h))
         hs == [handles EXCEPT ![h].rules = h]
     IN  IF f.index = None
         THEN /\ res' = Result("findRule", f.status, 0, h, <<select>>, None, 0)
              /\ UNCHANGED <<lists, handles>>
         ELSE \E tg \in Targets(ls[h].rule_list) :
                LET o == ItemVia(ls, hs, h, f.index, tg)
                IN  /\ lists' = o.lists
                    /\ handles' = o.handles
                    /\ res' = Result("findRule", o.status, h, h, <<select>>, f.index, o.ret)
  /\ UNCHANGED <<sheet, sheetRules, nextUid>>

\* CSSKeyframesRule::append_rule
CSSKeyframesRule_append_rule(h, text) ==
  /\ Running
  /\ LET keyframe == ParseKeyframe(text)
         rule == OwnRule(h)
         o == Outcome("ok", <<>>, lists, handles, 0)
     IN  IF keyframe = SyntaxError
         THEN /\ res' = Result("appendRule", "ok", 0, h, <<text>>, 0, 0)
              /\ UNCHANGED <<sheet, handles, nextUid>>
         ELSE IF rule = PanicNode \/ rule.kind # "Keyframes"
         \* self.rule_mut()?
         THEN /\ res' = Result("appendRule",
                               IF rule = PanicNode THEN "panic" ELSE "error",
                               0, h, <<text>>, 0, 0)
              /\ UNCHANGED <<sheet, handles, nextUid>>
         ELSE /\ nextUid < MaxUid
              /\ StoreChildren(h, Append(rule.kids, WithUid(keyframe, nextUid + 1)), o)
              /\ nextUid' = nextUid + 1
              /\ res' = Result("appendRule", "ok", 0, h, <<text>>, 0, 0)
  /\ UNCHANGED <<sheetRules, lists>>

\* CSSKeyframesRule::delete_rule
CSSKeyframesRule_delete_rule(h, select) ==
  /\ Running
  /\ LET f == find_index(h, select)
     IN  IF f.index = None
         THEN /\ res' = Result("keyframesDeleteRule", f.status, 0, h, <<select>>, None, 0)
              /\ UNCHANGED <<sheet, lists, handles>>
         ELSE \E snapshot \in DisconnectOutcomes(handles[h].rules, f.index) :
                LET o == delete_rule(OwnRule(h).kids, handles[h].rules, f.index, snapshot)
                IN  /\ StoreChildren(h, o.rules, o)
                    /\ lists' = o.lists
                    /\ res' = Result("keyframesDeleteRule", o.status, 0, h, <<select>>, f.index, 0)
  /\ UNCHANGED <<sheetRules, nextUid>>

Next ==
  \/ CSSStyleSheet_css_rules
  \/ \E call \in InsertCalls : CSSStyleSheet_insert_rule(call[1], call[2])
  \/ \E index \in Indices : CSSStyleSheet_delete_rule(index)
  \/ \E code \in Codes : CSSStyleSheet_replace_sync(code)
  \/ \E L \in DOMAIN lists, index \in Indices : CSSRuleList_item(L, index)
  \/ \E h \in GroupingHandles : CSSGroupingRule_css_rules(h)
  \/ \E h \in KeyframesHandles : CSSKeyframesRule_css_rules(h)
  \/ \E h \in GroupingHandles, call \in NestedCalls : grouping_rule_insert(h, call[1], call[2])
  \/ \E h \in GroupingHandles, index \in Indices : grouping_rule_delete(h, index)

Spec == Init /\ [][Next]_vars

\* CSSRuleList::length, over the outcomes of the dereference.
length(L) == {Len(VecOf(tg)) : tg \in Targets(lists[L].rule_list)}

\* The calls on the rule handles themselves, on a stylesheet of style and
\* keyframes rules whose own insertRule and deleteRule get indices within
\* range or at the end, and whose lists are asked for items below their
\* length.
RuleCalls == {"a", "@keyframes"} \X (Indices \cup {Omitted})
RuleCodes == {<<"b">>, <<>>}

NextRules ==
  \/ CSSStyleSheet_css_rules
  \/ \E call \in RuleCalls : call[2] <= Len(sheet) /\ CSSStyleSheet_insert_rule(call[1], call[2])
  \/ \E index \in Indices : index <= Len(sheet) /\ CSSStyleSheet_delete_rule(index)
  \/ \E code \in RuleCodes : CSSStyleSheet_replace_sync(code)
  \/ \E L \in DOMAIN lists, index \in Indices :
       (\E n \in length(L) : index < n) /\ CSSRuleList_item(L, index)
  \/ \E h \in KeyframesHandles : CSSKeyframesRule_css_rules(h)
  \/ \E h \in StyleHandles, text \in SelectorTexts : CSSStyleRule_set_selector_text(h, text)
  \/ \E h \in KeyframesHandles, select \in KeyframeSelectors : CSSKeyframesRule_find_rule(h, select)
  \/ \E h \in KeyframesHandles, text \in KeyframeTexts : CSSKeyframesRule_append_rule(h, text)
  \/ \E h \in KeyframesHandles, select \in KeyframeSelectors : CSSKeyframesRule_delete_rule(h, select)

SpecRules == Init /\ [][NextRules]_vars

\* ------------------------------------------- addRule, media lists, setters
\* format!("{} {{ {} }}", selector, style)
FormatRule(selector, style) == selector \o " { " \o style \o " }"

\* addRule's (selector, style) arguments; ".." is no selector.
AddCalls == {<<".a", "">>, <<"..", "">>}

\* Mutant of CSSStyleSheet_add_rule: the insertion index is returned.
CSSStyleSheet_add_rule_index(selector, style, index) ==
  /\ Running
  /\ nextUid < MaxUid
  /\ index <= Len(sheet) + 1
  /\ LET o == insert_rule(sheet, sheetRules, FormatRule(selector, style), index)
     IN  /\ sheet' = o.rules
         /\ lists' = o.lists
         /\ handles' = o.handles
         /\ nextUid' = IF o.status = "ok" THEN nextUid + 1 ELSE nextUid
         /\ res' = Result("addRule", o.status, 0, 0, <<selector, style>>, index, o.ret)
  /\ UNCHANGED sheetRules

\* CSSStyleSheet::add_rule
CSSStyleSheet_add_rule(selector, style, index) ==
  /\ Running
  /\ nextUid < MaxUid
  /\ index <= Len(sheet) + 1
  /\ LET o == insert_rule(sheet, sheetRules, FormatRule(selector, style), index)
     IN  /\ sheet' = o.rules
         /\ lists' = o.lists
         /\ handles' = o.handles
         /\ nextUid' = IF o.status = "ok" THEN nextUid + 1 ELSE nextUid
         /\ res' = Result("addRule", o.status, 0, 0, <<selector, style>>, index,
                          IF o.status = "ok" THEN 0 - 1 ELSE 0)        \* Ok(-1)
  /\ UNCHANGED sheetRules

\* MediaQuery::parse_string and MediaList::parse_string, on the texts the
\* caller draws from: the parsed value, or an error.
ParseMediaQuery(text) ==
  CASE text = "screen" -> "screen"
    [] text = "print" -> "print"
    [] text = " print" -> "print"
    [] OTHER -> "SyntaxError"

ParseMediaList(text) ==
  CASE text = "screen" -> <<"screen">>
    [] text = "print, screen, print" -> <<"print", "screen", "print">>
    [] OTHER -> <<"SyntaxError">>

MediaQueryTexts == {"screen", " print", "bad"}
MediaListTexts == {"print, screen, print", "bad"}
KeyTexts == {"10%", "bad"}

\* The handles wrapped as CSSMediaRule, as a CSSConditionRule (media and
\* supports rules) and as CSSKeyframeRule.
MediaHandles == {h \in DOMAIN handles : handles[h].cls = "Media"}
ConditionHandles == {h \in DOMAIN handles : handles[h].cls \in {"Media", "Supports"}}
KeyframeHandles == {h \in DOMAIN handles : handles[h].cls = "Keyframe"}

\* CSSMediaRule::media: the JSMediaList is created once, with a reference
\* to the query of the rule the handle addresses at that moment.
CSSMediaRule_media(h) ==
  /\ Running
  /\ IF handles[h].media # NoRef
     THEN UNCHANGED <<handles, res>>
     ELSE IF OwnRule(h).kind # "Media"
     THEN /\ res' = Result("media", "panic", 0, h, <<>>, 0, 0)        \* unreachable!()
          /\ UNCHANGED handles
     ELSE /\ handles' = [handles EXCEPT ![h].media = ChildrenRef(h, FALSE)]
          /\ res' = Result("media", "ok", 0, h, <<>>, 0, h)
  /\ UNCHANGED <<sheet, sheetRules, lists, nextUid>>

\* The MediaList a dereference of the JSMediaList's reference reaches, and
\* the assignment through it.
QueryOf(tg) == IF tg.t = "slot" THEN sheet[tg.k + 1].text ELSE handles[tg.k].snap.text

StoreQuery(tg, queries) ==
  /\ sheet' = IF tg.t = "slot" THEN [sheet EXCEPT ![tg.k + 1].text = queries] ELSE sheet
  /\ handles' = IF tg.t = "snap" THEN [handles EXCEPT ![tg.k].snap.text = queries] ELSE handles

\* Vec::retain(|q| *q != query)
Retain(queries, query) == SelectSeq(queries, LAMBDA q : q # query)

\* Mutant of Retain: only the first equal query is removed.
Retain_first(queries, query) ==
  IF \E k \in DOMAIN queries : queries[k] = query
  THEN RemoveAt(queries, (CHOOSE k \in DOMAIN queries :
                            queries[k] = query /\ \A j \in 1..(k - 1) : queries[j] # query) - 1)
  ELSE queries

\* JSMediaList::set_media_text
JSMediaList_set_media_text(h, text) ==
  /\ Running
  /\ handles[h].media # NoRef
  /\ \E tg \in Targets(handles[h].media) :
       LET media_list == ParseMediaList(text)
       IN  IF media_list = <<"SyntaxError">>
           THEN /\ res' = Result("setMediaText", "ok", 0, h, <<text>>, 0, 0)
                /\ UNCHANGED <<sheet, handles>>
           ELSE IF tg = Wild
           THEN /\ res' = Result("setMediaText", "panic", 0, h, <<text>>, 0, 0)
                /\ UNCHANGED <<sheet, handles>>
           ELSE /\ StoreQuery(tg, media_list)
                /\ res' = Result("setMediaText", "ok", 0, h, <<text>>, 0, 0)
  /\ UNCHANGED <<sheetRules, lists, nextUid>>

\* JSMediaList::append_medium
JSMediaList_append_medium(h, medium) ==
  /\ Running
  /\ handles[h].media # NoRef
  /\ \E tg \in Targets(handles[h].media) :
       LET query == ParseMediaQuery(medium)
       IN  IF query = "SyntaxError"
           THEN /\ res' = Result("appendMedium", "ok", 0, h, <<medium>>, 0, 0)
                /\ UNCHANGED <<sheet, handles>>
           ELSE IF tg = Wild
           THEN /\ res' = Result("appendMedium", "panic", 0, h, <<medium>>, 0, 0)
                /\ UNCHANGED <<sheet, handles>>
           ELSE /\ StoreQuery(tg, IF \E k \in DOMAIN QueryOf(tg) : QueryOf(tg)[k] = query
                                  THEN QueryOf(tg)
                                  ELSE Append(QueryOf(tg), query))
                /\ res' = Result("appendMedium", "ok", 0, h, <<medium>>, 0, 0)
  /\ UNCHANGED <<sheetRules, lists, nextUid>>

\* JSMediaList::delete_medium
JSMediaList_delete_medium(h, medium) ==
  /\ Running
  /\ handles[h].media # NoRef
  /\ \E tg \in Targets(handles[h].media) :
       LET query == ParseMediaQuery(medium)
       IN  IF query = "SyntaxError"
           THEN /\ res' = Result("deleteMedium", "ok", 0, h, <<medium>>, 0, 0)
                /\ UNCHANGED <<sheet, handles>>
           ELSE IF tg = Wild
           THEN /\ res' = Result("deleteMedium", "panic", 0, h, <<medium>>, 0, 0)
                /\ UNCHANGED <<sheet, handles>>
           ELSE /\ StoreQuery(tg, Retain(QueryOf(tg), query))
                /\ res' = Result("deleteMedium",
                                 IF Len(Retain(QueryOf(tg), query)) = Len(QueryOf(tg))
                                 THEN "NotFound" ELSE "ok",
                                 0, h, <<medium>>, 0, 0)
  /\ UNCHANGED <<sheetRules, lists, nextUid>>

\* CSSConditionRule::set_condition_text
CSSConditionRule_set_condition_text(h, text) ==
  /\ Running
  /\ LET rule == OwnRule(h)
         media_list == ParseMediaList(text)
     IN  IF rule = PanicNode
         THEN /\ res' = Result("setConditionText", "panic", 0, h, <<text>>, 0, 0)
              /\ UNCHANGED <<sheet, handles>>
         ELSE /\ res' = Result("setConditionText", "ok", 0, h, <<text>>, 0, 0)
              /\ IF rule.kind = "Media" /\ media_list # <<"SyntaxError">>
                 THEN IF handles[h].conn
                      THEN /\ sheet' = [sheet EXCEPT ![handles[h].index + 1].text = media_list]
                           /\ UNCHANGED handles
                      ELSE /\ handles' = [handles EXCEPT ![h].snap.text = media_list]
                           /\ UNCHANGED sheet
                 ELSE UNCHANGED <<sheet, handles>>
  /\ UNCHANGED <<sheetRules, lists, nextUid>>

\* CSSKeyframeRule::set_key_text
CSSKeyframeRule_set_key_text(h, text) ==
  /\ Running
  /\ \E tg \in (IF handles[h].conn THEN Targets(handles[h].ref) ELSE {Target("own", h)}) :
       LET index == handles[h].index
           node == IF handles[h].conn THEN NodeAt(tg, index) ELSE handles[h].snap
           selectors == parse_keyframe_selectors(text)
       IN  IF selectors = "SyntaxError"
           THEN /\ res' = Result("setKeyText", "ok", 0, h, <<text>>, 0, 0)
                /\ UNCHANGED <<sheet, handles>>
           ELSE IF node.kind # "Keyframe"
           \* rule_mut's index out of range, or unreachable!()
           THEN /\ res' = Result("setKeyText", "panic", 0, h, <<text>>, 0, 0)
                /\ UNCHANGED <<sheet, handles>>
           ELSE /\ res' = Result("setKeyText", "ok", 0, h, <<text>>, 0, 0)
                /\ sheet' = IF tg.t = "slot"
                            THEN [sheet EXCEPT ![tg.k + 1].kids[index + 1].text = selectors]
                            ELSE sheet
                /\ handles' = CASE tg.t = "snap" -> [handles EXCEPT ![tg.k].snap.kids[index + 1].text = selectors]
                                [] tg.t = "own" -> [handles EXCEPT ![h].snap.text = selectors]
                                [] OTHER -> handles
  /\ UNCHANGED <<sheetRules, lists, nextUid>>

\* CSSRule::set_css_text: the assigned value is not even received.
CSSRule_set_css_text(h) ==
  /\ Running
  /\ res' = Result("setCssText", "ok", 0, h, <<>>, 0, 0)
  /\ UNCHANGED <<sheet, sheetRules, lists, handles, nextUid>>

\* The calls on a stylesheet of media, supports and keyframes rules: rules
\* come in at the front (and style rules through addRule), the lists are
\* asked for items below their length.
SetterCalls == {"@media", "@supports", "@keyframes"}
SetterCodes == {<<"@media">>, <<>>}

NextSetters ==
  \/ CSSStyleSheet_css_rules
  \/ \E text \in SetterCalls : CSSStyleSheet_insert_rule(text, 0)
  \/ \E call \in AddCalls, index \in Indices \cup {Omitted} :
       CSSStyleSheet_add_rule(call[1], call[2], index)
  \/ \E index \in Indices : index < Len(sheet) /\ CSSStyleSheet_delete_rule(index)
  \/ \E code \in SetterCodes : CSSStyleSheet_replace_sync(code)
  \/ \E L \in DOMAIN lists, index \in Indices :
       (\E n \in length(L) : index < n) /\ CSSRuleList_item(L, index)
  \/ \E h \in KeyframesHandles : CSSKeyframesRule_css_rules(h)
  \/ \E h \in MediaHandles : CSSMediaRule_media(h)
  \/ \E h \in MediaHandles, text \in MediaListTexts : JSMediaList_set_media_text(h, text)
  \/ \E h \in MediaHandles, medium \in MediaQueryTexts : JSMediaList_append_medium(h, medium)
  \/ \E h \in MediaHandles, medium \in MediaQueryTexts : JSMediaList_delete_medium(h, medium)
  \/ \E h \in ConditionHandles, text \in MediaListTexts : CSSConditionRule_set_condition_text(h, text)
  \/ \E h \in KeyframeHandles, text \in KeyTexts : CSSKeyframeRule_set_key_text(h, text)
  \/ \E h \in DOMAIN handles : CSSRule_set_css_text(h)

SpecSetters == Init /\ [][NextSetters]_vars

\* ================================================================ claims
\* What item(index) answers from list L's cache without creating anything
\* (0 when the slot is empty or beyond the cache).
Cached(ls, L, index) ==
  IF L \in DOMAIN ls /\ index < Len(ls[L].rules) THEN ls[L].rules[index + 1] ELSE 0

\* The calls that change the shape of a rule sequence.
Structural == {"insertRule", "deleteRule", "replaceSync", "groupInsertRule", "groupDeleteRule"}

\* The Connected handles that address list L.
ConnectedOf(L) ==
  {h \in DOMAIN handles : handles[h].conn /\ handles[h].ref = lists[L].rule_list}

\* The list an insertRule or deleteRule result was about, and the sequence
\* it addressed before the call (top level, or the children of handle h).
ListOf(r) == IF r.h = 0 THEN sheetRules ELSE handles[r.h].rules
SeqOf(r) == IF r.h = 0 THEN sheet ELSE OwnRule(r.h).kids

\* C1. Identity stability: a step that is no insertRule, deleteRule or
\* replaceSync keeps every populated cache slot of every list, a successful
\* item(i) returns the handle its list's cache holds at i afterwards (so the
\* next item(i) returns that same handle), and no handle is held by two
\* slots nor do two Connected handles address the same index of a list.
C1_OneIdentity ==
  /\ \A L1 \in DOMAIN lists, L2 \in DOMAIN lists :
       \A i \in DOMAIN lists[L1].rules, j \in DOMAIN lists[L2].rules :
         (lists[L1].rules[i] # 0 /\ lists[L1].rules[i] = lists[L2].rules[j]) => (L1 = L2 /\ i = j)
  /\ \A h1 \in DOMAIN handles, h2 \in DOMAIN handles :
       (/\ handles[h1].conn /\ handles[h2].conn
        /\ handles[h1].ref = handles[h2].ref
        /\ handles[h1].index = handles[h2].index) => h1 = h2

C1_Step ==
  /\ C1_OneIdentity'
  /\ res'.op \notin Structural =>
       /\ \A L \in DOMAIN lists : \A i \in Indices :
            Cached(lists, L, i) # 0 => Cached(lists', L, i) = Cached(lists, L, i)
       /\ (res'.op = "item" /\ res'.status = "ok") =>
            /\ res'.ret # 0
            /\ res'.ret = Cached(lists', res'.list, res'.arg)
            /\ res'.ret \in DOMAIN handles'

C1_IdentityStable == [][C1_Step]_vars

\* C1 witness: item(i) has just answered from the cache with a handle that
\* an earlier item(i) created (the handle already has its own nested list,
\* so it is older than this call).
C1_Witness ==
  /\ res.op = "item" /\ res.status = "ok"
  /\ res.ret = Cached(lists, res.list, res.arg)
  /\ handles[res.ret].conn
  /\ handles[res.ret].rules # 0

\* C2. Index shift on insert: a successful insertRule(text, i) on a list
\* adds one to the index of every Connected handle of that list whose
\* index was >= i, leaves those with index < i alone, creates, destroys and
\* disconnects no handle, and moves every cached identity at j >= i to j+1.
C2_Step ==
  (res'.op \in {"insertRule", "groupInsertRule"} /\ res'.status = "ok") =>
    LET L == ListOf(res')
        i == res'.ret
    IN  /\ DOMAIN handles' = DOMAIN handles
        /\ \A h \in DOMAIN handles : handles'[h].conn = handles[h].conn
        /\ L # 0 =>
             /\ \A h \in ConnectedOf(L) :
                  /\ handles'[h].ref = handles[h].ref
                  /\ handles'[h].index =
                       IF handles[h].index >= i THEN handles[h].index + 1 ELSE handles[h].index
             /\ \A j \in Indices :
                  Cached(lists, L, j) # 0 =>
                    Cached(lists', L, IF j >= i THEN j + 1 ELSE j) = Cached(lists, L, j)

C2_InsertShift == [][C2_Step]_vars

\* C2 witness: an insertRule at i succeeded on a list that holds a Connected
\* handle beyond i, i.e. one the call has shifted.
C2_Witness ==
  /\ res.op \in {"insertRule", "groupInsertRule"} /\ res.status = "ok"
  /\ ListOf(res) # 0
  /\ \E h \in ConnectedOf(ListOf(res)) :
       handles[h].index > res.ret /\ Cached(lists, ListOf(res), handles[h].index) = h

\* C6. insertRule(text, k) with k > length fails with "Index out of bounds"
\* and changes neither the rule sequence, nor a cache, nor a handle.
C6_Step ==
  (/\ res'.op \in {"insertRule", "groupInsertRule"}
   /\ res'.h # 0 => OwnRule(res'.h).kind = "Media"
   /\ res'.arg > Len(SeqOf(res'))) =>
     /\ res'.status = "IndexOutOfBounds"
     /\ UNCHANGED <<sheet, sheetRules, lists, handles, nextUid>>

C6_InsertOutOfRange == [][C6_Step]_vars

\* C6 witness: an insertRule beyond the end of a list with materialized
\* handles, with text the parser rejects, has returned the error.
C6_Witness ==
  /\ res.op \in {"insertRule", "groupInsertRule"}
  /\ res.status = "IndexOutOfBounds"
  /\ res.text = <<"bad">>
  /\ ListOf(res) # 0 /\ ConnectedOf(ListOf(res)) # {}
  /\ res.arg > Len(SeqOf(res))
  /\ Len(SeqOf(res)) > 0

\* The sequence SeqOf(r) has become after the call.
SeqAfter(r) ==
  IF r.h = 0 THEN sheet'
  ELSE IF handles[r.h].conn THEN sheet'[handles[r.h].index + 1].kids
  ELSE handles'[r.h].snap.kids

\* The rule a handle denotes: the rule it addresses, or its snapshot.
Denoted(h) == IF h.conn THEN CHOOSE n \in RuleOutcomes(h) : TRUE ELSE h.snap

\* The call was made on the stylesheet or on a handle whose rule is a
\* grouping rule, so that it has a rule sequence.
OnSequence(r) == r.h # 0 => OwnRule(r.h).kind = "Media"

\* C3. Index shift on remove: deleteRule(i) with i < length succeeds, the
\* handle cached at i becomes Disconnected with the removed rule's text as
\* its snapshot and null parentRule and parentStyleSheet, every Connected
\* handle of the list beyond i moves down by one, those before i stay, and
\* the sequence is one shorter.
C3_Step ==
  (/\ res'.op \in {"deleteRule", "groupDeleteRule"}
   /\ OnSequence(res')
   /\ res'.arg < Len(SeqOf(res'))) =>
     LET L == ListOf(res')
         i == res'.arg
         at == Cached(lists, L, i)
     IN  /\ res'.status = "ok"
         /\ Len(SeqAfter(res')) = Len(SeqOf(res')) - 1
         /\ at # 0 =>
              /\ ~handles'[at].conn
              /\ CssText(handles'[at].snap) = CssText(SeqOf(res')[i + 1])
              /\ handles'[at].parent_rule = 0
              /\ parent_style_sheet(handles'[at]) = "null"
         /\ L # 0 =>
              \A h \in ConnectedOf(L) \ {at} :
                /\ handles'[h].conn
                /\ handles'[h].index =
                     IF handles[h].index > i THEN handles[h].index - 1 ELSE handles[h].index

C3_RemoveShift == [][C3_Step]_vars

\* C4. insertRule(text, i) with well-formed text and 0 <= i <= length
\* (0 when omitted) succeeds whatever the cache holds: it returns i, the
\* new rule is at i and the former rules keep their order around it.
C4_Step ==
  (/\ res'.op \in {"insertRule", "groupInsertRule"}
   /\ OnSequence(res')
   /\ ParseRule(res'.text[1]) # SyntaxError
   /\ res'.arg <= Len(SeqOf(res'))) =>
     LET i == IF res'.arg = Omitted THEN 0 ELSE res'.arg
         before == SeqOf(res')
         after == SeqAfter(res')
     IN  /\ res'.status = "ok"
         /\ res'.ret = i
         /\ Len(after) = Len(before) + 1
         /\ CssText(after[i + 1]) = CssText(ParseRule(res'.text[1]))
         /\ \A j \in DOMAIN before : after[IF j > i THEN j + 1 ELSE j] = before[j]

C4_InsertSucceeds == [][C4_Step]_vars

\* C5. deleteRule(k) with k >= length fails with "Index out of bounds" and
\* changes neither the rule sequence, nor a cache, nor a handle.
C5_Step ==
  (/\ res'.op \in {"deleteRule", "groupDeleteRule"}
   /\ OnSequence(res')
   /\ res'.arg >= Len(SeqOf(res'))) =>
     /\ res'.status = "IndexOutOfBounds"
     /\ UNCHANGED <<sheet, sheetRules, lists, handles, nextUid>>

C5_DeleteOutOfRange == [][C5_Step]_vars

\* C7. After a successful replaceSync every handle the top-level cache held
\* is Disconnected, reads a null parentStyleSheet and keeps the text of the
\* rule it denoted just before; the tree has as many rules as the text.
C7_Step ==
  (res'.op = "replaceSync" /\ res'.status = "ok") =>
    /\ Len(sheet') = Len(res'.text)
    /\ \A i \in Indices :
         LET h == Cached(lists, sheetRules, i)
         IN  h # 0 =>
               /\ ~handles'[h].conn
               /\ parent_style_sheet(handles'[h]) = "null"
               /\ CssText(handles'[h].snap) = CssText(Denoted(handles[h]))

C7_ReplaceDisconnects == [][C7_Step]_vars

\* C8. replaceSync with text that does not parse reports a SyntaxError,
\* keeps the tree and leaves every Connected handle Connected at its index.
C8_Step ==
  (res'.op = "replaceSync" /\ ParseSheet(res'.text) = <<SyntaxError>>) =>
    /\ res'.status = "SyntaxError"
    /\ sheet' = sheet
    /\ \A h \in DOMAIN handles :
         handles[h].conn => (handles'[h].conn /\ handles'[h].index = handles[h].index)

C8_ReplaceAllOrNothing == [][C8_Step]_vars

\* C9. Right after a successful replaceSync the top-level cache answers no
\* index of the new tree with a handle of the old tree: what item(i) finds
\* cached, if anything, is Connected and reads the new tree's rule i.
C9_CacheAddressesNewTree ==
  (res.op = "replaceSync" /\ res.status = "ok" /\ sheetRules # 0) =>
    \A i \in 0..(Len(sheet) - 1) :
      LET h == Cached(lists, sheetRules, i)
      IN  h # 0 =>
            /\ handles[h].conn
            /\ parent_style_sheet(handles[h]) = "sheet"
            /\ CssText(Denoted(handles[h])) = CssText(sheet[i + 1])

\* C10. Cascade disconnection: when deleteRule removes a grouping or
\* keyframes rule, every handle cached in that rule's nested list becomes
\* Disconnected with its own prior value as snapshot, and no handle stays
\* Connected to the children of a rule that is no longer in the tree.
C10_Step ==
  (res'.op = "deleteRule" /\ res'.status = "ok") =>
    LET at == Cached(lists, sheetRules, res'.arg)
    IN  /\ (at # 0 /\ handles[at].rules # 0) =>
             \A j \in Indices :
               LET n == Cached(lists, handles[at].rules, j)
               IN  n # 0 =>
                     /\ ~handles'[n].conn
                     /\ handles[n].conn => handles'[n].snap \in RuleOutcomes(handles[n])
        /\ \A h \in DOMAIN handles' :
             (handles'[h].conn /\ handles'[h].ref.base = "slot") =>
               \E k \in DOMAIN sheet' : sheet'[k].uid = handles'[h].ref.uid

C10_CascadeDisconnect == [][C10_Step]_vars

\* C11. replaceSync disconnects every handle of the old tree, those
\* materialized in nested rule lists included: each handle that was
\* Connected is Disconnected afterwards, with the rule it denoted as snapshot.
C11_Step ==
  (res'.op = "replaceSync" /\ res'.status = "ok") =>
    \A h \in DOMAIN handles :
      handles[h].conn =>
        /\ ~handles'[h].conn
        /\ handles'[h].snap \in RuleOutcomes(handles[h])

C11_ReplaceDisconnectsNested == [][C11_Step]_vars

\* C12. Disconnected is terminal and the snapshot is stable: a Disconnected
\* handle stays Disconnected, and no insertRule, deleteRule or replaceSync
\* on the stylesheet changes the text of its snapshot.
C12_Step ==
  \A h \in DOMAIN handles :
    ~handles[h].conn =>
      /\ ~handles'[h].conn
      /\ res'.op \in {"insertRule", "deleteRule", "replaceSync"} =>
           CssText(handles'[h].snap) = CssText(handles[h].snap)

C12_DisconnectedStable == [][C12_Step]_vars

\* The nested list of the Connected top-level handle h addresses the
\* children of the rule h denotes, and nothing else.
Addresses(h) ==
  Targets(lists[handles[h].rules].rule_list) = {Target("slot", handles[h].index)}

\* C13. Nested lists are stable under sibling mutation: after a top-level
\* insertRule or deleteRule at an index other than the slot of a grouping
\* or keyframes rule, the nested list obtained from that rule's handle still
\* addresses that rule's children and its cache is unchanged.
C13_Step ==
  (res'.op \in {"insertRule", "deleteRule"} /\ res'.status = "ok") =>
    LET i == IF res'.op = "insertRule" THEN res'.ret ELSE res'.arg
    IN  \A h \in DOMAIN handles :
          (/\ handles[h].conn
           /\ handles[h].rules # 0
           /\ handles[h].index # i
           /\ Addresses(h)) =>
             /\ handles'[h].conn
             /\ lists'[handles[h].rules].rules = lists[handles[h].rules].rules
             /\ Addresses(h)'

C13_NestedStable == [][C13_Step]_vars

\* C16. insertRule with text the rule parser rejects, at an index within
\* range, returns a SyntaxError to the caller and changes neither the rule
\* sequence, nor a cache, nor a handle.
C16_Step ==
  (/\ res'.op \in {"insertRule", "groupInsertRule"}
   /\ OnSequence(res')
   /\ ParseRule(res'.text[1]) = SyntaxError
   /\ res'.arg <= Len(SeqOf(res'))) =>
     /\ res'.status = "SyntaxError"
     /\ UNCHANGED <<sheet, sheetRules, lists, handles, nextUid>>

C16_InsertSyntaxError == [][C16_Step]_vars

\* C14. A Disconnected handle's mutating operations are no-ops: a setter
\* called on a Disconnected handle leaves the text of its snapshot as it
\* was and changes nothing in the live tree.
C14_Step ==
  (res'.op \in {"setSelectorText", "appendRule"} /\ ~handles[res'.h].conn) =>
    /\ CssText(handles'[res'.h].snap) = CssText(handles[res'.h].snap)
    /\ sheet' = sheet

C14_DisconnectedSettersNoOp == [][C14_Step]_vars

\* The reference r still addresses the Vec it was taken from.
Intact(r) ==
  \/ r.base = "sheet"
  \/ r.base = "slot" /\ r.slot < Len(sheet) /\ sheet[r.slot + 1].uid = r.uid
  \/ r.base = "snap" /\ handles[r.h].snap.uid = r.uid

\* The rule (by its allocation) handle h was materialized for.
RuleOf(h) == h \div 10

\* Every rule of the tree and of the snapshots, with its children.
AllNodes(sh, hs) ==
  LET tops == {sh[k] : k \in DOMAIN sh} \cup {hs[h].snap : h \in DOMAIN hs}
  IN  tops \cup UNION {{n.kids[k] : k \in DOMAIN n.kids} : n \in tops}

\* Handle h resolves to the rule it was materialized for.
Resolves(h) == \A n \in RuleOutcomes(handles[h]) : n.uid = RuleOf(h)

\* C15. Live addressing: a handle that item() materializes on a list whose
\* reference is intact is Connected at the index asked for; every call
\* leaves each Connected handle that resolved to the rule it was
\* materialized for resolving to that same rule, whatever its new index, as
\* long as the call has not invalidated the reference of the handle's list;
\* a write through such a handle changes that rule and no other; and item,
\* the keyframes calls and the setters leave every intact list reference
\* intact.
C15_Step ==
  /\ \A h \in DOMAIN handles :
       (/\ handles[h].conn /\ Intact(handles[h].ref) /\ Resolves(h)
        /\ handles'[h].conn /\ Intact(handles[h].ref)') => Resolves(h)'
  /\ \A h \in DOMAIN handles' \ DOMAIN handles :
       Intact(handles[h].ref)' =>
         /\ handles'[h].conn /\ handles'[h].index = res'.arg
         /\ Resolves(h)'
  /\ \A h \in DOMAIN handles :
       (/\ res'.op = "setSelectorText" /\ res'.status = "ok" /\ res'.h = h
        /\ handles[h].conn /\ Intact(handles[h].ref) /\ Resolves(h)) =>
          /\ \A n \in AllNodes(sheet', handles') :
               n.uid = RuleOf(h) => n.text = ParseSelectors(res'.text[1])
          /\ \A n \in AllNodes(sheet, handles) :
               n.uid # RuleOf(h) =>
                 \E m \in AllNodes(sheet', handles') : m.uid = n.uid /\ m.text = n.text
  /\ \A L \in DOMAIN lists :
       (/\ res'.op \in {"item", "findRule", "appendRule", "keyframesDeleteRule",
                        "setSelectorText"}
        /\ Intact(lists[L].rule_list)) => Intact(lists[L].rule_list)'

C15_LiveAddressing == [][C15_Step]_vars

\* C15 witness: deleteRule(k) has just succeeded on the stylesheet and a
\* handle that was held for rule k+1 is Connected at index k, where the rule
\* it was materialized for now lies.
C15_Witness ==
  /\ res.op = "deleteRule" /\ res.status = "ok"
  /\ \E h \in DOMAIN handles :
       /\ handles[h].conn /\ handles[h].ref = SheetRef
       /\ handles[h].index = res.arg
       /\ sheet[res.arg + 1].uid = RuleOf(h)

\* The keyframes of the rule keyframes handle h denotes, and the 0-based
\* positions of those whose selector is what text parses to.
KeyframesOf(h) == IF OwnRule(h).kind = "Keyframes" THEN OwnRule(h).kids ELSE <<>>
Matching(h, text) ==
  {k - 1 : k \in {k \in DOMAIN KeyframesOf(h) :
                    KeyframesOf(h)[k].text = parse_keyframe_selectors(text)}}
Last(S) == CHOOSE k \in S : \A j \in S : j <= k

\* C17. findRule(selectorText) on a keyframes handle returns the handle of
\* the last keyframe whose selector equals the parsed text, null when none
\* matches or the text does not parse, and never raises for such text.
C17_Step ==
  res'.op = "findRule" =>
    LET h == res'.h
        found == Matching(h, res'.text[1])
    IN  /\ res'.status = "ok"
        /\ found = {} => res'.ret = 0
        /\ found # {} =>
             /\ res'.ret \in DOMAIN handles'
             /\ handles'[res'.ret].conn
             /\ handles'[res'.ret].index = Last(found)
             /\ RuleOutcomes(handles[res.ret])' = {KeyframesOf(h)[Last(found) + 1]}

C17_FindRuleLastMatch == [][C17_Step]_vars

\* C18. Keyframes deleteRule(selectorText) removes exactly the last keyframe
\* whose selector matches: the handle cached for it becomes Disconnected
\* with that keyframe as snapshot and the Connected handles cached beyond it
\* move down by one; when nothing matches or the text does not parse, the
\* keyframes, the caches and the handles are unchanged.
C18_Step ==
  \A h \in DOMAIN handles : (res'.op = "keyframesDeleteRule" /\ res'.h = h) =>
    LET found == Matching(h, res'.text[1])
        L == handles[h].rules
        at == Cached(lists, L, Last(found))
    IN  /\ res'.status = "ok"
        /\ found = {} => UNCHANGED <<sheet, lists, handles>>
        /\ found # {} =>
             /\ KeyframesOf(h)' = RemoveAt(KeyframesOf(h), Last(found))
             /\ at # 0 =>
                  /\ ~handles'[at].conn
                  /\ CssText(handles'[at].snap) = CssText(KeyframesOf(h)[Last(found) + 1])
             /\ L # 0 =>
                  \A n \in ConnectedOf(L) \ {at} :
                    /\ handles'[n].conn
                    /\ handles'[n].index =
                         IF handles[n].index > Last(found)
                         THEN handles[n].index - 1 ELSE handles[n].index

C18_KeyframesDelete == [][C18_Step]_vars

\* C19. Keyframes appendRule(text): text that parses as a keyframe is pushed
\* at the end of the keyframes and every handle and cache stays as it was
\* (but for the children of a snapshot the keyframe was pushed into); text
\* that does not parse succeeds and changes nothing.
C19_Step ==
  \A h \in DOMAIN handles : (res'.op = "appendRule" /\ res'.h = h) =>
    LET keyframe == ParseKeyframe(res'.text[1])
    IN  /\ res'.status = "ok"
        /\ keyframe = SyntaxError => UNCHANGED <<sheet, lists, handles>>
        /\ keyframe # SyntaxError =>
             /\ Len(KeyframesOf(h)') = Len(KeyframesOf(h)) + 1
             /\ SubSeq(KeyframesOf(h)', 1, Len(KeyframesOf(h))) = KeyframesOf(h)
             /\ CssText(KeyframesOf(h)'[Len(KeyframesOf(h)) + 1]) = CssText(keyframe)
             /\ lists' = lists
             /\ \A n \in DOMAIN handles :
                  /\ handles'[n].conn = handles[n].conn
                  /\ handles'[n].index = handles[n].index
                  /\ handles'[n].ref = handles[n].ref

C19_KeyframesAppend == [][C19_Step]_vars

\* C20. setSelectorText on a style rule with text that does not parse as a
\* selector list is silently ignored: the call succeeds and the rule keeps
\* its selectors.
C20_Step ==
  (/\ res'.op = "setSelectorText"
   /\ ParseSelectors(res'.text[1]) = "SyntaxError"
   /\ \A n \in RuleOutcomes(handles[res'.h]) : n.kind = "Style") =>
     /\ res'.status = "ok"
     /\ UNCHANGED <<sheet, handles>>

C20_SelectorTextIgnored == [][C20_Step]_vars

\* The cssRules getters.
Getters == {"cssRules", "groupCssRules", "keyframesCssRules"}

\* C22. cssRules is created once and cached: once the stylesheet or a
\* grouping or keyframes handle has its rule list it keeps that list for
\* good, the list keeps the sequence it addresses and its parent, and a
\* cssRules read returns the owner's list, creates no list the owner
\* already has and touches no cache and no handle's state, so the handles
\* materialized through one read are those a later read gives access to.
C22_Step ==
  /\ sheetRules # 0 => sheetRules' = sheetRules
  /\ \A h \in DOMAIN handles :
       handles[h].rules # 0 => handles'[h].rules = handles[h].rules
  /\ \A L \in DOMAIN lists :
       /\ L \in DOMAIN lists'
       /\ lists'[L].rule_list = lists[L].rule_list
       /\ lists'[L].parent_rule = lists[L].parent_rule
  /\ res'.op \in Getters =>
       /\ res'.status = "ok" =>
            res'.ret = (IF res'.h = 0 THEN sheetRules' ELSE handles'[res'.h].rules)
       /\ \A L \in DOMAIN lists : lists'[L] = lists[L]
       /\ \A h \in DOMAIN handles :
            [handles'[h] EXCEPT !.rules = 0] = [handles[h] EXCEPT !.rules = 0]

C22_CssRulesCached == [][C22_Step]_vars

\* C22 witness: a handle has been materialized through the nested list a
\* cssRules read on a grouping or keyframes handle returned, while the
\* stylesheet's own list holds that owner; both getters are enabled and a
\* further read returns these lists with these caches.
C22_Witness ==
  /\ sheetRules # 0
  /\ res.op = "item" /\ res.status = "ok" /\ res.list # sheetRules
  /\ \E h \in DOMAIN handles :
       /\ handles[h].rules = res.list
       /\ Cached(lists, sheetRules, handles[h].index) = h
       /\ Cached(lists, res.list, res.arg) = res.ret
       /\ res.ret # 0

\* C24. item(i) with i >= length returns null and materializes nothing (no
\* handle is created and the cache answers nothing at i), and item(i) with
\* i < length returns a Connected handle whose index is i.
C24_Step ==
  \A L \in DOMAIN lists :
    (res'.op = "item" /\ res'.list = L) =>
      /\ (\A n \in length(L) : res'.arg >= n) =>
           /\ res'.status = "ok" /\ res'.ret = 0
           /\ DOMAIN handles' = DOMAIN handles
           /\ Cached(lists', L, res'.arg) = 0
      /\ (\A n \in length(L) : res'.arg < n) =>
           /\ res'.status = "ok" /\ res'.ret \in DOMAIN handles'
           /\ handles'[res'.ret].conn
           /\ handles'[res'.ret].index = res'.arg

C24_ItemBeyondLength == [][C24_Step]_vars

\* C25. The identity cache stays within its sequence: every populated cache
\* slot j of a rule list lies below the length of the sequence the list
\* mirrors, and a Connected handle held in slot j has index j.
C25_CacheWithinSequence ==
  \A L \in DOMAIN lists :
    \A j \in DOMAIN lists[L].rules :
      lists[L].rules[j] # 0 =>
        /\ \A n \in length(L) : j - 1 < n
        /\ handles[lists[L].rules[j]].conn => handles[lists[L].rules[j]].index = j - 1

\* The media list of the rule handle h denotes.
MediaListOf(h) == IF OwnRule(h).kind = "Media" THEN OwnRule(h).text ELSE <<>>

\* The queries of a list that differ from query, in their order.
RECURSIVE Without(_, _)
Without(queries, query) ==
  IF queries = <<>> THEN <<>>
  ELSE IF Head(queries) = query THEN Without(Tail(queries), query)
  ELSE <<Head(queries)>> \o Without(Tail(queries), query)

\* C21. deleteMedium(text) on the media list of a media rule, with text
\* that parses as a media query: when no query of the list equals the
\* parsed one the call fails with NotFound and the list and the tree are
\* unchanged; otherwise it succeeds and the list is left with exactly the
\* queries that differ from it, in their order.
C21_Step ==
  \A h \in DOMAIN handles :
    (/\ res'.op = "deleteMedium" /\ res'.h = h
     /\ ParseMediaQuery(res'.text[1]) # "SyntaxError") =>
       IF \E k \in DOMAIN MediaListOf(h) : MediaListOf(h)[k] = ParseMediaQuery(res'.text[1])
       THEN /\ res'.status = "ok"
            /\ MediaListOf(h)' = Without(MediaListOf(h), ParseMediaQuery(res'.text[1]))
       ELSE /\ res'.status = "NotFound"
            /\ MediaListOf(h)' = MediaListOf(h)
            /\ sheet' = sheet

C21_DeleteMedium == [][C21_Step]_vars

\* C23. addRule(selector, style, index) does to the rule list, the caches
\* and the handles what insertRule("selector { style }", index) does, ends
\* as that insertRule ends, and returns -1 whenever it succeeds.
C23_Step ==
  res'.op = "addRule" =>
    LET o == insert_rule(sheet, sheetRules, res'.text[1] \o " { " \o res'.text[2] \o " }", res'.arg)
    IN  /\ sheet' = o.rules
        /\ lists' = o.lists
        /\ handles' = o.handles
        /\ res'.status = o.status
        /\ o.status = "ok" => res'.ret = 0 - 1

C23_AddRule == [][C23_Step]_vars

\* C23 witness: addRule has succeeded at index 0 of a list that held a
\* Connected handle there, which now has index 1, and has returned -1.
C23_Witness ==
  /\ res.op = "addRule" /\ res.status = "ok" /\ res.ret = 0 - 1
  /\ res.arg = 0
  /\ sheetRules # 0
  /\ sheet[1].kind = "Style"
  /\ \E h \in ConnectedOf(sheetRules) :
       handles[h].index = 1 /\ Cached(lists, sheetRules, 1) = h

\* C26. Permissive setters never change state on rejected input: setKeyText
\* with text that is no keyframe selector list, and conditionText set on a
\* media rule with text that is no media list, change nothing and raise
\* nothing; conditionText set on a supports rule and the assignment of a
\* rule's cssText change nothing and raise nothing, whatever the input.
C26_Step ==
  LET silent == /\ res'.status = "ok"
                /\ UNCHANGED <<sheet, sheetRules, lists, handles, nextUid>>
  IN  /\ (res'.op = "setKeyText" /\ parse_keyframe_selectors(res'.text[1]) = "SyntaxError")
           => silent
      /\ (/\ res'.op = "setConditionText" /\ handles[res'.h].cls = "Media"
          /\ ParseMediaList(res'.text[1]) = <<"SyntaxError">>) => silent
      /\ (res'.op = "setConditionText" /\ handles[res'.h].cls = "Supports") => silent
      /\ res'.op = "setCssText" => silent

C26_PermissiveSetters == [][C26_Step]_vars

====
